---- MODULE Spec2Model ----
(***************************************************************************)
(* Grid cycle engine (backend/app/engine.py): a long-only grid cycle       *)
(* counter.  Prices, step and spread are exact decimals in the source; they *)
(* are modelled as integers counted in a common sub-step unit, so that a    *)
(* step of 2 leaves room for off-grid prices.  Exact decimal arithmetic on  *)
(* such values is integer arithmetic.  Timestamps are integers.             *)
(***************************************************************************)
EXTENDS Integers, Sequences, FiniteSets, TLC

\* ---------------------------------------------------------------- bounds
MaxPrice == 5          \* prices fed are 0..MaxPrice
MaxSamples == 3        \* feed calls per run in Spec
MaxRun == 5            \* feed calls per run in SpecDeep
MaxTopPrice == 27      \* highest price of SpecTop, on a grid of step 1
MaxTopRun == 5         \* feed calls per run in SpecTop
TopN == 25             \* finalize keeps the first 25 rows
prec == 3              \* significant digits of the decimal context: 28 in the
                       \* source, scaled down with the prices of the model
MaxFloorPrice == 12    \* floor_to_step is applied to -MaxFloorPrice..MaxFloorPrice
MaxFloorStep == 4      \* and to the steps 1..MaxFloorStep
MaxCloses == 2         \* closes per level in SpecOps
MaxTime == 2           \* timestamps of SpecTime are 0..MaxTime
MaxTimeRun == 4        \* feed calls per run in SpecTime

\* Optional values: None is the empty tuple, Some(v) the 1-tuple
None == <<>>
Some(v) == <<v>>

Prices == 0..MaxPrice
\* <<step, spread>> handed to the constructor: accepted and refused ones
GridArgs == {<<2, 1>>, <<2, 2>>, <<2, 3>>, <<3, 3>>,
             <<0, 2>>, <<2, 0>>, <<0 - 1, 2>>, <<2, 0 - 1>>, <<0, 0>>}
\* <<step, spread>> of the longer runs of SpecDeep
GridDeep == {<<2, 1>>, <<2, 2>>, <<2, 3>>}
\* <<level_min, level_max>> handed to the constructor
BandArgs == {<<None, None>>, <<Some(2), None>>, <<None, Some(3)>>, <<Some(2), Some(4)>>}

VARIABLES
    engine,          \* "none" before construction, "ok", or "error" (ValueError)
    step, spread, exact_only, level_min, level_max,
    armed,           \* dict level -> bool
    armed_keys,      \* insertion order of the keys of armed
    armed_ns,        \* dict level -> arm timestamp
    cycles,          \* dict level -> completed cycles
    cycles_keys,     \* insertion order of the keys of cycles
    first_close_ns, last_close_ns,
    durations_s,     \* dict level -> list of durations
    prev_price, prev_ns, samples,
    out,             \* value returned by the last call when it was finalize
    call,            \* the last call and its arguments
    ticks            \* prices fed so far, in order

cfgvars == <<step, spread, exact_only, level_min, level_max>>
storevars == <<armed, armed_keys, armed_ns, cycles, cycles_keys,
               first_close_ns, last_close_ns, durations_s>>
runvars == <<prev_price, prev_ns, samples>>
vars == <<engine, cfgvars, storevars, runvars, out, call, ticks>>

\* ------------------------------------------------------- dict helpers
EmptyDict == [k \in {} |-> 0]
Has(d, k) == k \in DOMAIN d
Get(d, k, default) == IF k \in DOMAIN d THEN d[k] ELSE default
Put(d, k, v) == (k :> v) @@ d
Pop(d, k) == [x \in (DOMAIN d) \ {k} |-> d[x]] @@ EmptyDict
PutKey(keys, d, k) == IF k \in DOMAIN d THEN keys ELSE Append(keys, k)

\* ------------------------------------------------- grid arithmetic
\* Decimal arithmetic is carried out in the module's context: every result
\* of a division, product, sum or difference is rounded to prec significant
\* digits, half to even.  A Decimal is modelled by the integer that counts
\* it in the common unit, which has the same significant digits.
Abs(x) == IF x < 0 THEN 0 - x ELSE x

Sign(x) == IF x < 0 THEN 0 - 1 ELSE 1

RECURSIVE Pow10(_)
Pow10(n) == IF n = 0 THEN 1 ELSE 10 * Pow10(n - 1)

\* number of decimal digits of the natural n >= 1
Digits(n) == CHOOSE d \in 1..9 : Pow10(d - 1) <= n /\ n < Pow10(d)

\* a / b for naturals a, b > 0, rounded to an integer, half to even
RoundHalfEven(a, b) ==
    LET q == a \div b
        r == a % b
    IN IF 2 * r < b THEN q
       ELSE IF 2 * r > b THEN q + 1
       ELSE IF q % 2 = 0 THEN q ELSE q + 1

\* the integer n rounded to prec significant digits (the context rounding of
\* a sum, difference or product)
Rounded(n) ==
    IF Abs(n) < Pow10(prec) THEN n
    ELSE LET e == Digits(Abs(n)) - prec
         IN Sign(n) * RoundHalfEven(Abs(n), Pow10(e)) * Pow10(e)

\* x / st in the context, st > 0: the quotient rounded to prec significant
\* digits, as the pair <<c, k>> that stands for c / 10^k (k = 0 when the
\* rounded quotient has no fractional digit left)
Quotient(x, st) ==
    LET a == Abs(x)
        qi == a \div st
    IN IF a = 0 THEN <<0, 0>>
       ELSE IF qi >= Pow10(prec - 1)
       THEN LET e == Digits(qi) - prec
            IN <<Sign(x) * RoundHalfEven(a, st * Pow10(e)) * Pow10(e), 0>>
       ELSE LET k == CHOOSE k \in 1..(prec + Digits(st)) :
                        a * Pow10(k) >= st * Pow10(prec - 1)
            IN <<Sign(x) * RoundHalfEven(a * Pow10(k), st), k>>

\* q.to_integral_value(rounding=ROUND_FLOOR) of the quotient <<c, k>>
ToIntegralFloor(q) ==
    LET c == q[1]
        d == Pow10(q[2])
    IN IF c >= 0 THEN c \div d
       ELSE 0 - ((Abs(c) + d - 1) \div d)

\* q == q.to_integral_value(): the rounded quotient is an integer
is_on_grid(x, st) == Quotient(x, st)[1] % Pow10(Quotient(x, st)[2]) = 0

floor_to_step(price, st) == Rounded(ToIntegralFloor(Quotient(price, st)) * st)

\* variant: a print that lands on the target does not count
crossed_up_exclusive(p0, p1, target) == p0 < target /\ target < p1

\* variant: a target counts only when the print lands on it
crossed_up_print(p0, p1, target) == p0 < target /\ target = p1

crossed_up(p0, p1, target) == p0 < target /\ target <= p1

\* variant: the scan bounds are trusted and the test is dropped
crossed_down_unchecked(p0, p1, level) == TRUE

crossed_down(p0, p1, level) == p0 > level /\ level >= p1

\* ------------------------------------------------- level state store
\* The mutable dictionaries of one engine, as a record the operations map
Store == [armed |-> armed, armed_keys |-> armed_keys, armed_ns |-> armed_ns,
          cycles |-> cycles, cycles_keys |-> cycles_keys,
          first_close_ns |-> first_close_ns, last_close_ns |-> last_close_ns,
          durations_s |-> durations_s]

EmptyStore == [armed |-> EmptyDict, armed_keys |-> <<>>, armed_ns |-> EmptyDict,
               cycles |-> EmptyDict, cycles_keys |-> <<>>,
               first_close_ns |-> EmptyDict, last_close_ns |-> EmptyDict,
               durations_s |-> EmptyDict]

\* variant: the upper edge of the band is not tested
_in_band_no_max(L) ==
    IF level_min # None /\ L < level_min[1] THEN FALSE
    ELSE TRUE

_in_band(L) ==
    IF level_min # None /\ L < level_min[1] THEN FALSE
    ELSE IF level_max # None /\ L > level_max[1] THEN FALSE
    ELSE TRUE

\* variant: an armed level is stamped again
_arm_refresh(s, L, ns) ==
    IF ~_in_band(L) THEN s
    ELSE [s EXCEPT !.armed = Put(s.armed, L, TRUE),
                   !.armed_keys = PutKey(s.armed_keys, s.armed, L),
                   !.armed_ns = Put(s.armed_ns, L, ns)]

_arm(s, L, ns) ==
    IF ~_in_band(L) THEN s
    ELSE IF ~Get(s.armed, L, FALSE)
         THEN [s EXCEPT !.armed = Put(s.armed, L, TRUE),
                        !.armed_keys = PutKey(s.armed_keys, s.armed, L),
                        !.armed_ns = Put(s.armed_ns, L, ns)]
         ELSE s

\* variant: the armed flag survives the close
_close_keep_armed(s, L, ns) ==
    IF ~_in_band(L) THEN s
    ELSE [s EXCEPT
            !.cycles = Put(s.cycles, L, Get(s.cycles, L, 0) + 1),
            !.cycles_keys = PutKey(s.cycles_keys, s.cycles, L),
            !.last_close_ns = Put(s.last_close_ns, L, ns),
            !.first_close_ns = IF Has(s.first_close_ns, L) THEN s.first_close_ns
                               ELSE Put(s.first_close_ns, L, ns),
            !.durations_s = IF Has(s.armed_ns, L)
                            THEN Put(s.durations_s, L,
                                     Append(Get(s.durations_s, L, <<>>), ns - s.armed_ns[L]))
                            ELSE s.durations_s]

\* variant: the arm timestamp is left behind by the close
_close_keep_stamp(s, L, ns) ==
    IF ~_in_band(L) THEN s
    ELSE [s EXCEPT
            !.cycles = Put(s.cycles, L, Get(s.cycles, L, 0) + 1),
            !.cycles_keys = PutKey(s.cycles_keys, s.cycles, L),
            !.last_close_ns = Put(s.last_close_ns, L, ns),
            !.first_close_ns = IF Has(s.first_close_ns, L) THEN s.first_close_ns
                               ELSE Put(s.first_close_ns, L, ns),
            !.durations_s = IF Has(s.armed_ns, L)
                            THEN Put(s.durations_s, L,
                                     Append(Get(s.durations_s, L, <<>>), ns - s.armed_ns[L]))
                            ELSE s.durations_s,
            !.armed = Put(s.armed, L, FALSE),
            !.armed_keys = PutKey(s.armed_keys, s.armed, L)]

\* variant: the duration is taken the other way round (arm_ns - ns)
_close_swapped(s, L, ns) ==
    IF ~_in_band(L) THEN s
    ELSE [s EXCEPT
            !.cycles = Put(s.cycles, L, Get(s.cycles, L, 0) + 1),
            !.cycles_keys = PutKey(s.cycles_keys, s.cycles, L),
            !.last_close_ns = Put(s.last_close_ns, L, ns),
            !.first_close_ns = IF Has(s.first_close_ns, L) THEN s.first_close_ns
                               ELSE Put(s.first_close_ns, L, ns),
            !.durations_s = IF Has(s.armed_ns, L)
                            THEN Put(s.durations_s, L,
                                     Append(Get(s.durations_s, L, <<>>), s.armed_ns[L] - ns))
                            ELSE s.durations_s,
            !.armed = Put(s.armed, L, FALSE),
            !.armed_keys = PutKey(s.armed_keys, s.armed, L),
            !.armed_ns = Pop(s.armed_ns, L)]

\* variant: every close writes first_close_ns
_close_first_overwritten(s, L, ns) ==
    IF ~_in_band(L) THEN s
    ELSE [s EXCEPT
            !.cycles = Put(s.cycles, L, Get(s.cycles, L, 0) + 1),
            !.cycles_keys = PutKey(s.cycles_keys, s.cycles, L),
            !.last_close_ns = Put(s.last_close_ns, L, ns),
            !.first_close_ns = Put(s.first_close_ns, L, ns),
            !.durations_s = IF Has(s.armed_ns, L)
                            THEN Put(s.durations_s, L,
                                     Append(Get(s.durations_s, L, <<>>), ns - s.armed_ns[L]))
                            ELSE s.durations_s,
            !.armed = Put(s.armed, L, FALSE),
            !.armed_keys = PutKey(s.armed_keys, s.armed, L),
            !.armed_ns = Pop(s.armed_ns, L)]

\* A duration is (ns - arm_ns) / 1e9 seconds; it is kept as the numerator,
\* in units of 1e-9 s.
_close(s, L, ns) ==
    IF ~_in_band(L) THEN s
    ELSE [s EXCEPT
            !.cycles = Put(s.cycles, L, Get(s.cycles, L, 0) + 1),
            !.cycles_keys = PutKey(s.cycles_keys, s.cycles, L),
            !.last_close_ns = Put(s.last_close_ns, L, ns),
            !.first_close_ns = IF Has(s.first_close_ns, L) THEN s.first_close_ns
                               ELSE Put(s.first_close_ns, L, ns),
            !.durations_s = IF Has(s.armed_ns, L)
                            THEN Put(s.durations_s, L,
                                     Append(Get(s.durations_s, L, <<>>), ns - s.armed_ns[L]))
                            ELSE s.durations_s,
            !.armed = Put(s.armed, L, FALSE),
            !.armed_keys = PutKey(s.armed_keys, s.armed, L),
            !.armed_ns = Pop(s.armed_ns, L)]

_close_if_hit(s, p0, p1, L, ns) ==
    IF Get(s.armed, L, FALSE) /\ crossed_up(p0, p1, Rounded(L + spread))
    THEN _close(s, L, ns)
    ELSE s

\* ------------------------------------------------------ feed processor
\* variant: the arm check is an elif of the close check
FeedExact_either(s, price, ns) ==
    LET Lc == Rounded(price - spread)
    IN IF is_on_grid(Lc, step) /\ Get(s.armed, Lc, FALSE)
       THEN _close(s, Lc, ns)
       ELSE IF is_on_grid(price, step) THEN _arm(s, price, ns) ELSE s

\* exact-only branch of feed (engine.py 98-105)
FeedExact(s, price, ns) ==
    LET Lc == Rounded(price - spread)
        s1 == IF is_on_grid(Lc, step) /\ Get(s.armed, Lc, FALSE)
              THEN _close(s, Lc, ns) ELSE s
    IN IF is_on_grid(price, step) THEN _arm(s1, price, ns) ELSE s1

\* the levels of a sequence of levels
Levels(Ls) == {Ls[i] : i \in DOMAIN Ls}

\* The store after a loop over the levels of the sequence Ls, in order, where
\* After[L] is the store the iteration of L leaves when it starts from s.  An
\* iteration reads and writes only the entries of its own level (_arm and
\* _close touch nothing else) and no level comes twice, so each level's
\* entries are those its own iteration leaves, and the new keys enter each
\* dict in the order of Ls.
ForEachLevel(s, Ls, After) ==
    LET S == Levels(Ls)
        Dict(d, F(_)) ==
            [k \in {k \in (DOMAIN d) \cup S : k \in S => k \in DOMAIN F(After[k])}
               |-> IF k \in S THEN F(After[k])[k] ELSE d[k]]
        Order(keys, d, F(_)) ==
            keys \o SelectSeq(Ls, LAMBDA L : L \notin DOMAIN d /\ L \in DOMAIN F(After[L]))
    IN [armed |-> Dict(s.armed, LAMBDA t : t.armed),
        armed_keys |-> Order(s.armed_keys, s.armed, LAMBDA t : t.armed),
        armed_ns |-> Dict(s.armed_ns, LAMBDA t : t.armed_ns),
        cycles |-> Dict(s.cycles, LAMBDA t : t.cycles),
        cycles_keys |-> Order(s.cycles_keys, s.cycles, LAMBDA t : t.cycles),
        first_close_ns |-> Dict(s.first_close_ns, LAMBDA t : t.first_close_ns),
        last_close_ns |-> Dict(s.last_close_ns, LAMBDA t : t.last_close_ns),
        durations_s |-> Dict(s.durations_s, LAMBDA t : t.durations_s)]

\* variant: the loop stops before end_L (while L > end_L)
ScanLevels_open(p0, p1) ==
    LET L0 == floor_to_step(p0, step)
        end_L == floor_to_step(p1, step)
    IN [j \in 1..((L0 - end_L) \div step) |-> L0 - (j - 1) * step]

\* the levels the loop of the downward branch visits, in its order: from
\* floor_to_step(p0) down to floor_to_step(p1), step by step (the levels of
\* an engine run have fewer than prec digits, so L -= step is exact)
ScanLevels(p0, p1) ==
    LET L0 == floor_to_step(p0, step)
        end_L == floor_to_step(p1, step)
    IN [j \in 1..((L0 - end_L) \div step + 1) |-> L0 - (j - 1) * step]

\* while L >= end_L: if crossed_down(p0, p1, L): _arm(L, ns); L -= step
ArmScan(s, p0, p1, ns) ==
    LET Ls == ScanLevels(p0, p1)
    IN ForEachLevel(s, Ls,
           [L \in Levels(Ls) |-> IF crossed_down(p0, p1, L) THEN _arm(s, L, ns) ELSE s]
               @@ EmptyDict)

\* variant: the loop leaves after the first close (a break after the call)
CloseScan_first(s, p0, p1, ns) ==
    LET hits == SelectSeq(s.armed_keys,
                          LAMBDA L : s.armed[L] /\ crossed_up(p0, p1, Rounded(L + spread)))
    IN IF hits = <<>> THEN s ELSE _close(s, hits[1], ns)

\* for L in list(armed.keys()): if armed[L]: _close_if_hit(p0, p1, L, ns)
CloseScan(s, p0, p1, ns) ==
    ForEachLevel(s, s.armed_keys,
        [L \in Levels(s.armed_keys) |->
            IF s.armed[L] THEN _close_if_hit(s, p0, p1, L, ns) ELSE s] @@ EmptyDict)

\* variant: the comparisons take equality in, so that an unchanged price
\* runs the down branch
FeedCross_inclusive(s, p0, p1, ns) ==
    IF p1 <= p0
    THEN LET Ls == ScanLevels(p0, p1)
         IN ForEachLevel(s, Ls,
                [L \in Levels(Ls) |-> IF p0 >= L /\ L >= p1 THEN _arm(s, L, ns) ELSE s]
                    @@ EmptyDict)
    ELSE CloseScan(s, p0, p1, ns)

\* crossing branch of feed once a previous price exists (engine.py 112-127)
FeedCross(s, p0, p1, ns) ==
    IF p1 < p0
    THEN ArmScan(s, p0, p1, ns)
    ELSE IF p1 > p0
         THEN CloseScan(s, p0, p1, ns)
         ELSE s

\* variant: the exact-only branch does not return and the crossing logic
\* runs after it
FeedStore_fallthrough(s, price, ns) ==
    LET s1 == IF exact_only THEN FeedExact(s, price, ns) ELSE s
    IN IF prev_price = None THEN s1
       ELSE FeedCross(s1, prev_price[1], price, ns)

\* variant: the first tick of gap-aware mode is handled as a print
FeedStore_first_print(s, price, ns) ==
    IF exact_only \/ prev_price = None THEN FeedExact(s, price, ns)
    ELSE FeedCross(s, prev_price[1], price, ns)

\* the store after feed(price, ns)
FeedStore(s, price, ns) ==
    IF exact_only THEN FeedExact(s, price, ns)
    ELSE IF prev_price = None THEN s
    ELSE FeedCross(s, prev_price[1], price, ns)

\* ------------------------------------------------------ report builder
Min(a, b) == IF a < b THEN a ELSE b

\* sorted(xs) of a list of numbers (a new list)
RECURSIVE SortedList(_)
SortedList(xs) ==
    IF xs = <<>> THEN <<>>
    ELSE LET i == CHOOSE i \in 1..Len(xs) : \A j \in 1..Len(xs) : xs[i] <= xs[j]
         IN <<xs[i]>> \o SortedList(SubSeq(xs, 1, i - 1) \o SubSeq(xs, i + 1, Len(xs)))

\* _median: None for an empty list, else the median of the sorted copy.  The
\* value is kept as twice the median, so that the mean of the two middle
\* values of an even-length list stays an integer.
_median(xs) ==
    LET n == Len(xs)
        ys == SortedList(xs)
        m == n \div 2
    IN IF n = 0 THEN None
       ELSE IF n % 2 = 1 THEN Some(2 * ys[m + 1])
       ELSE Some(ys[m] + ys[m + 1])

\* sorted(cycles.items(), key=level): the keys in ascending order; the key
\* at place i has i - 1 keys below it
SortedLevels(S) ==
    [i \in 1..Cardinality(S) |->
        CHOOSE k \in S : Cardinality({x \in S : x < k}) = i - 1]

\* variant: an ascending sort read backwards, which turns ties around
ByCountBefore_reversed(keys, c, j, i) ==
    \/ c[keys[j]] > c[keys[i]]
    \/ (c[keys[j]] = c[keys[i]] /\ j > i)

\* item j comes before item i in sorted(..., key=count, reverse=True): it
\* counts more, or as much and it is earlier in the input (the sort is stable)
ByCountBefore(keys, c, j, i) ==
    \/ c[keys[j]] > c[keys[i]]
    \/ (c[keys[j]] = c[keys[i]] /\ j < i)

\* sorted(cycles.items(), key=count, reverse=True) over the items in the
\* iteration order of the dict: the item at place p has p - 1 items before it
SortedByCount(keys, c) ==
    LET N == 1..Len(keys)
        place == [i \in N |-> 1 + Cardinality({j \in N : ByCountBefore(keys, c, j, i)})]
                 @@ EmptyDict
    IN [p \in N |-> keys[CHOOSE i \in N : place[i] = p]]

\* variant: durations_s.pop(L, []) takes the list out of the dict
DurationsGet_pop(d, L) == [list |-> Get(d, L, <<>>), dict |-> Pop(d, L)]

\* durations_s.get(L, []): the list read and the dict it leaves behind
DurationsGet(d, L) == [list |-> Get(d, L, <<>>), dict |-> d]

\* the durations dict after the loop over the top rows: each row reads the
\* list of its own level, and a key stays when the read of its row leaves it
DurationsAfter(d, top) ==
    [k \in {k \in DOMAIN d :
              \A i \in 1..Len(top) : top[i] = k => k \in DOMAIN DurationsGet(d, k).dict}
       |-> d[k]]

\* the row the loop appends for the level L
TopRow(s, L) ==
    [level |-> L,
     cycles |-> s.cycles[L],
     first_close_ns |-> IF Has(s.first_close_ns, L)
                        THEN Some(s.first_close_ns[L]) ELSE None,
     last_close_ns |-> IF Has(s.last_close_ns, L)
                       THEN Some(s.last_close_ns[L]) ELSE None,
     median_secs |-> _median(DurationsGet(s.durations_s, L).list)]

\* finalize(): the report returned and the store it leaves.  A level stands
\* for its own string key.
finalize(s, n) ==
    LET lv == SortedLevels(DOMAIN s.cycles)
        totals == [i \in 1..Len(lv) |-> <<lv[i], s.cycles[lv[i]]>>]
        byCount == SortedByCount(s.cycles_keys, s.cycles)
        top == SubSeq(byCount, 1, Min(TopN, Len(byCount)))
        rows == [i \in 1..Len(top) |-> TopRow(s, top[i])]
    IN [report |-> [totals |-> totals, top_levels |-> rows, samples |-> n],
        store |-> [s EXCEPT !.durations_s = DurationsAfter(s.durations_s, top)]]

\* ------------------------------------------------------------- actions
SetStore(s) ==
    /\ armed' = s.armed
    /\ armed_keys' = s.armed_keys
    /\ armed_ns' = s.armed_ns
    /\ cycles' = s.cycles
    /\ cycles_keys' = s.cycles_keys
    /\ first_close_ns' = s.first_close_ns
    /\ last_close_ns' = s.last_close_ns
    /\ durations_s' = s.durations_s

Call(op, a, b) == [op |-> op, a |-> a, b |-> b]

Init ==
    /\ engine = "none"
    /\ step = 0 /\ spread = 0 /\ exact_only = FALSE
    /\ level_min = None /\ level_max = None
    /\ armed = EmptyDict /\ armed_keys = <<>> /\ armed_ns = EmptyDict
    /\ cycles = EmptyDict /\ cycles_keys = <<>>
    /\ first_close_ns = EmptyDict /\ last_close_ns = EmptyDict
    /\ durations_s = EmptyDict
    /\ prev_price = None /\ prev_ns = None /\ samples = 0
    /\ out = None
    /\ call = Call("none", 0, 0)
    /\ ticks = <<>>

\* variant: only negative values are refused
ValidConfig_negative(a_step, a_spread) == ~(a_step < 0 \/ a_spread < 0)

\* __init__ accepts the configuration
ValidConfig(a_step, a_spread) == ~(a_step <= 0 \/ a_spread <= 0)

\* GridEngine(step, spread, exact_only, level_min, level_max)
Construct(a_step, a_spread, a_exact, a_min, a_max) ==
    /\ engine = "none"
    /\ call' = Call("construct", a_step, a_spread)
    /\ IF ValidConfig(a_step, a_spread)
       THEN /\ engine' = "ok"
            /\ step' = a_step /\ spread' = a_spread /\ exact_only' = a_exact
            /\ level_min' = a_min /\ level_max' = a_max
            /\ SetStore(EmptyStore)
            /\ prev_price' = None /\ prev_ns' = None /\ samples' = 0
       ELSE /\ engine' = "error"
            /\ UNCHANGED <<cfgvars, storevars, runvars>>
    /\ UNCHANGED <<out, ticks>>

\* variant: the count is taken after the early return of the first tick
FeedSamples_late(n) == IF ~exact_only /\ prev_price = None THEN n ELSE n + 1

\* self.samples += 1, the first statement of feed
FeedSamples(n) == n + 1

\* engine.feed(price, ns)
Feed(price, ns) ==
    /\ engine = "ok"
    /\ samples' = FeedSamples(samples)
    /\ SetStore(FeedStore(Store, price, ns))
    /\ prev_price' = Some(price)
    /\ prev_ns' = Some(ns)
    /\ out' = None
    /\ call' = Call("feed", price, ns)
    /\ ticks' = Append(ticks, price)
    /\ UNCHANGED <<engine, cfgvars>>

\* engine.finalize()
Finalize ==
    /\ engine = "ok"
    /\ LET f == finalize(Store, samples)
       IN /\ out' = Some(f.report)
          /\ SetStore(f.store)
    /\ call' = Call("finalize", 0, 0)
    /\ UNCHANGED <<engine, cfgvars, runvars, ticks>>

\* tick i of a run carries timestamp i
Next ==
    \/ \E g \in GridArgs, a_exact \in BOOLEAN, b \in BandArgs :
            Construct(g[1], g[2], a_exact, b[1], b[2])
    \/ \E price \in Prices : samples < MaxSamples /\ Feed(price, samples)
    \/ Finalize

Spec == Init /\ [][Next]_vars

\* Longer runs of an unbanded engine, in both modes
NextDeep ==
    \/ \E g \in GridDeep, a_exact \in BOOLEAN :
            Construct(g[1], g[2], a_exact, None, None)
    \/ \E price \in Prices : samples < MaxRun /\ Feed(price, samples)

SpecDeep == Init /\ [][NextDeep]_vars

\* Runs over a wide price range on a grid of step 1, enough levels for
\* finalize to cut its list
TopPrices == {0, 1, MaxTopPrice}

NextTop ==
    \/ Construct(1, 1, FALSE, None, None)
    \/ \E price \in TopPrices : samples < MaxTopRun /\ Feed(price, samples)
    \/ Finalize

SpecTop == Init /\ [][NextTop]_vars

\* The level operations called on their own, outside feed: _arm and _close
\* are methods of the engine that any caller can reach.
OpsLevels == {2, 4}
OpsTimes == {1, 2}

\* engine._arm(L, ns)
ArmOp(L, ns) ==
    /\ engine = "ok"
    /\ SetStore(_arm(Store, L, ns))
    /\ out' = None
    /\ call' = Call("_arm", L, ns)
    /\ UNCHANGED <<engine, cfgvars, runvars, ticks>>

\* engine._close(L, ns)
CloseOp(L, ns) ==
    /\ engine = "ok"
    /\ SetStore(_close(Store, L, ns))
    /\ out' = None
    /\ call' = Call("_close", L, ns)
    /\ UNCHANGED <<engine, cfgvars, runvars, ticks>>

NextOps ==
    \/ \E b \in BandArgs : Construct(2, 2, FALSE, b[1], b[2])
    \/ \E L \in OpsLevels, ns \in OpsTimes : ArmOp(L, ns)
    \/ \E L \in OpsLevels, ns \in OpsTimes :
            Get(cycles, L, 0) < MaxCloses /\ CloseOp(L, ns)

SpecOps == Init /\ [][NextOps]_vars

\* Runs whose ticks carry timestamps of the caller's choice, in non-decreasing
\* order as the callers deliver them (several ticks may share a timestamp)
TimePrices == {0, 2, 3, 4}
Times == 0..MaxTime

\* the caller's ordering of the ticks: ns is not before the previous tick
InOrder(ns) == IF prev_ns = None THEN TRUE ELSE ns >= prev_ns[1]

NextTime ==
    \/ \E a_exact \in BOOLEAN : Construct(2, 2, a_exact, None, None)
    \/ \E price \in TimePrices, ns \in Times :
            samples < MaxTimeRun /\ InOrder(ns) /\ Feed(price, ns)

SpecTime == Init /\ [][NextTime]_vars

\* floor_to_step on its own: the arguments are drawn at the start, the
\* function is applied to them once.  The prices are those around zero, of
\* either sign, and those with more digits than the context keeps.
FloorPrices ==
    ((0 - MaxFloorPrice)..MaxFloorPrice)
    \cup {Pow10(prec) - 1, 2 * Pow10(prec) - 1, Pow10(prec) + 1, Pow10(prec + 1) - 1,
          1 - Pow10(prec), 1 - 2 * Pow10(prec), 0 - Pow10(prec) - 1}

FloorSteps == 1..MaxFloorStep

InitFloor ==
    /\ engine = "none"
    /\ step = 0 /\ spread = 0 /\ exact_only = FALSE
    /\ level_min = None /\ level_max = None
    /\ armed = EmptyDict /\ armed_keys = <<>> /\ armed_ns = EmptyDict
    /\ cycles = EmptyDict /\ cycles_keys = <<>>
    /\ first_close_ns = EmptyDict /\ last_close_ns = EmptyDict
    /\ durations_s = EmptyDict
    /\ prev_price = None /\ prev_ns = None /\ samples = 0
    /\ out = None
    /\ call \in {Call("args", price, st) : price \in FloorPrices, st \in FloorSteps}
    /\ ticks = <<>>

\* floor_to_step(price, step) called with the arguments drawn
Floor ==
    /\ call.op = "args"
    /\ out' = Some(floor_to_step(call.a, call.b))
    /\ call' = Call("floor_to_step", call.a, call.b)
    /\ UNCHANGED <<engine, cfgvars, storevars, runvars, ticks>>

SpecFloor == InitFloor /\ [][Floor]_vars

\* ------------------------------------------------------------- claims
Armed(d, L) == Get(d, L, FALSE)
Count(d, L) == Get(d, L, 0)
OnGrid(L) == \E k \in (0 - MaxPrice)..MaxPrice : L = k * step
GridLevels == {L \in (0 - MaxPrice)..(2 * MaxPrice) : OnGrid(L)}
Tracked(L) == (level_min = None \/ L >= level_min[1]) /\ (level_max = None \/ L <= level_max[1])
GapMode == engine = "ok" /\ ~exact_only
ExactMode == engine = "ok" /\ exact_only
\* the count finalize().totals reports for L, 0 when L is absent
TotalOf(L) ==
    LET t == finalize(Store, samples).report.totals
    IN IF \E i \in 1..Len(t) : t[i][1] = L
       THEN t[CHOOSE i \in 1..Len(t) : t[i][1] = L][2]
       ELSE 0

\* C1: in gap-aware mode with step = spread, a fresh engine fed the prices
\* L, L-step, L, L+step reports a completed-cycle count of exactly 1 for the
\* grid level L in finalize().totals.
C1_BasicCycle ==
    \A L \in GridLevels :
        (GapMode /\ step = spread /\ Tracked(L)
           /\ ticks = <<L, L - step, L, L + step>>)
        => TotalOf(L) = 1

\* levels that are a key of some dictionary before or after a step
Keys == DOMAIN armed \cup DOMAIN cycles
Keys2 == Keys \cup DOMAIN armed' \cup DOMAIN cycles'

\* C2: the cycle count of a level changes only by +1, only at a step where
\* the level is armed, and the level is not armed after that step (so a
\* further increment needs a new arm first).
C2_ReArmGating ==
    [][\A L \in Keys2 :
          Count(cycles', L) # Count(cycles, L)
          => /\ Armed(armed, L)
             /\ ~Armed(armed', L)
             /\ Count(cycles', L) = Count(cycles, L) + 1]_vars

\* C2 witness: gap-aware run shaped like S4; the level 2 closed once, then
\* the price fell back without reaching it and rose through its target
\* again, and it still counts 1.
C2_Witness ==
    /\ GapMode /\ step = 2 /\ spread = 2
    /\ ticks = <<5, 1, 5, 3, 5>>
    /\ Count(cycles, 2) = 1
    /\ ~Armed(armed, 2)

\* C3: gap-aware mode, fresh engine: a down tick from an off-grid p0 above
\* the level L to an off-grid p1 between L-step and L, then one up tick from
\* below L+spread to above L+spread (L+spread itself is never printed),
\* leaves L with a cycle count of exactly 1.
C3_GapClose ==
    \A L \in GridLevels :
        (/\ GapMode /\ Tracked(L) /\ Len(ticks) = 3
         /\ ~OnGrid(ticks[1]) /\ ticks[1] > L
         /\ ~OnGrid(ticks[2]) /\ ticks[2] < L /\ ticks[2] > L - step
         /\ ticks[2] < L + spread /\ ticks[3] > L + spread)
        => /\ Count(cycles, L) = 1
           /\ TotalOf(L) = 1
           /\ ~Armed(armed, L)

C3_Witness ==
    /\ GapMode /\ step = 2 /\ spread = 2
    /\ ticks = <<3, 1, 5>>
    /\ Count(cycles, 2) = 1

C5_BandFiltering ==
    /\ \A L \in Keys \cup DOMAIN armed_ns \cup DOMAIN durations_s \cup GridLevels :
          ~Tracked(L) => /\ ~Armed(armed, L)
                         /\ L \notin DOMAIN cycles
                         /\ L \notin DOMAIN armed_ns
                         /\ TotalOf(L) = 0
    /\ \A L \in GridLevels :
          (/\ engine = "ok" /\ call.op = "feed"
           /\ (level_min = Some(L) \/ level_max = Some(L))
           /\ Tracked(L)
           /\ IF exact_only THEN call.a = L
              ELSE Len(ticks) >= 2 /\ ticks[Len(ticks) - 1] > L /\ L >= call.a)
          => Armed(armed, L)

\* C5 witness: a banded gap-aware engine; the price fell through the levels
\* 4, 2 and 0: both edges of the band are armed, the level 0 below it is not.
C5_Witness ==
    /\ GapMode /\ step = 2
    /\ level_min = Some(2) /\ level_max = Some(4)
    /\ ticks = <<5, 0>>
    /\ Armed(armed, 2) /\ Armed(armed, 4)
    /\ 0 \notin DOMAIN armed

\* a price strictly between the previous price and the price of the tick
Jumped(L, price) ==
    /\ prev_price # None
    /\ \/ (prev_price[1] < L /\ L < price)
       \/ (price < L /\ L < prev_price[1])

\* C6: in exact-only mode a level L becomes armed only at a tick whose price
\* is L, on the grid; its count grows, and its armed flag is cleared, only at
\* a tick whose price is L+spread; so a tick arms no level strictly between
\* the previous price and its own, and closes such a level only when its own
\* price is that level plus the spread.
C6_ExactPrints ==
    [][(ExactMode /\ call'.op = "feed") =>
        \A L \in Keys2 :
            /\ (~Armed(armed, L) /\ Armed(armed', L))
               => (call'.a = L /\ L % step = 0)
            /\ (Count(cycles', L) # Count(cycles, L) \/ (Armed(armed, L) /\ ~Armed(armed', L)))
               => call'.a = L + spread
            /\ (Jumped(L, call'.a) /\ call'.a # L + spread)
               => (Armed(armed', L) = Armed(armed, L) /\ Count(cycles', L) = Count(cycles, L))]_vars

\* C6 as first stated: in exact-only mode a tick neither arms nor closes any
\* level strictly between the previous price and its own.
C6_NoCloseBetween ==
    [][(ExactMode /\ call'.op = "feed") =>
        \A L \in Keys2 :
            Jumped(L, call'.a)
            => (Armed(armed', L) = Armed(armed, L) /\ Count(cycles', L) = Count(cycles, L))]_vars

\* C6 witness: exact-only, the price jumped from 0 to 4: both prints are
\* armed, the level 2 between them has no state, nothing closed.
C6_Witness ==
    /\ ExactMode /\ step = 2
    /\ ticks = <<0, 4>>
    /\ Armed(armed, 0) /\ Armed(armed, 4)
    /\ 2 \notin DOMAIN armed
    /\ cycles = EmptyDict

\* rows of the report returned by the finalize call that led to this state
Rows == out[1].top_levels
Pos(keys, L) == CHOOSE i \in 1..Len(keys) : keys[i] = L
Listed == {Rows[i].level : i \in 1..Len(Rows)}

\* what holds of top_levels whatever the order of ties: at most TopN rows,
\* one per level, the counts of the store, descending, none left out that
\* counts more than a listed one
TopRowsShape ==
    /\ Len(Rows) = Min(TopN, Cardinality(DOMAIN cycles))
    /\ \A i, j \in 1..Len(Rows) : i < j =>
          /\ Rows[i].level # Rows[j].level
          /\ Rows[i].cycles >= Rows[j].cycles
    /\ \A i \in 1..Len(Rows) :
          /\ Rows[i].level \in DOMAIN cycles
          /\ Rows[i].cycles = cycles[Rows[i].level]
    /\ \A L \in DOMAIN cycles \ Listed :
          \A i \in 1..Len(Rows) : Rows[i].cycles >= cycles[L]

\* C7: finalize().top_levels has at most 25 rows, those of the highest cycle
\* counts, in descending order of count; rows of equal count keep the order
\* in which their levels were first closed (the order of the cycles
\* dictionary), and where the list is cut, a level left out with the count
\* of a listed one was first closed after it.
C7_TopLevelsFirstClosed ==
    (engine = "ok" /\ call.op = "finalize") =>
        /\ TopRowsShape
        /\ \A i, j \in 1..Len(Rows) :
              (i < j /\ Rows[i].cycles = Rows[j].cycles)
              => /\ Pos(cycles_keys, Rows[i].level) < Pos(cycles_keys, Rows[j].level)
                 /\ first_close_ns[Rows[i].level] <= first_close_ns[Rows[j].level]
        /\ \A L \in DOMAIN cycles \ Listed :
              \A i \in 1..Len(Rows) :
                  Rows[i].cycles = cycles[L]
                  => Pos(cycles_keys, Rows[i].level) < Pos(cycles_keys, L)

\* C7 as first stated: rows of equal count are in ascending order of level
\* price.
C7_TiesByPrice ==
    (engine = "ok" /\ call.op = "finalize") =>
        /\ TopRowsShape
        /\ \A i, j \in 1..Len(Rows) :
              (i < j /\ Rows[i].cycles = Rows[j].cycles)
              => Rows[i].level < Rows[j].level

\* C7 witness: more than 25 levels have a count and the list is cut to 25;
\* the level 0, the last one first closed, leads with 2 cycles, and the
\* tied levels 26 and 25 follow in the order they closed.
C7_Witness ==
    /\ engine = "ok" /\ call.op = "finalize"
    /\ Cardinality(DOMAIN cycles) > TopN
    /\ Len(Rows) = TopN
    /\ Rows[1].level = 0 /\ Rows[1].cycles = 2
    /\ Rows[2].level = 26 /\ Rows[3].level = 25
    /\ Rows[2].cycles = Rows[3].cycles

\* C8: the sample count is the number of feed calls made, in either mode,
\* first tick and idle ticks included; finalize reports it, and on an engine
\* never fed it returns empty totals, empty top_levels and samples = 0.
C8_SamplesCountsFeeds ==
    engine = "ok" =>
        /\ samples = Len(ticks)
        /\ finalize(Store, samples).report.samples = Len(ticks)
        /\ call.op = "finalize" => out[1].samples = Len(ticks)
        /\ (call.op = "finalize" /\ Len(ticks) = 0)
           => out = Some([totals |-> <<>>, top_levels |-> <<>>, samples |-> 0])

\* C8 witness: gap-aware, three ticks at one price (nothing armed, nothing
\* closed), finalize reports 3 samples.
C8_Witness ==
    /\ GapMode /\ call.op = "finalize"
    /\ ticks = <<2, 2, 2>>
    /\ armed = EmptyDict /\ cycles = EmptyDict
    /\ out[1].samples = 3

\* C9: a finalize call leaves the configuration, the store, the previous
\* tick and the sample count as they were; a second call right after it
\* returns the same report, and the report returned is the one a further
\* call would return.
C9_FinalizeReadOnly ==
    /\ [][call'.op = "finalize" =>
            /\ UNCHANGED <<engine, cfgvars, storevars, runvars, ticks>>
            /\ call.op = "finalize" => out' = out]_vars
    /\ [](call.op = "finalize" => out = Some(finalize(Store, samples).report))

\* C9 witness: finalize returned a report with a row that has a median,
\* while a level is still armed.
C9_Witness ==
    /\ engine = "ok" /\ call.op = "finalize"
    /\ Len(Rows) >= 1
    /\ Rows[1].median_secs # None
    /\ \E L \in DOMAIN armed : armed[L]
    /\ \E L \in DOMAIN durations_s : Len(durations_s[L]) >= 1

\* C10: a constructor call with step <= 0 or spread <= 0 fails and leaves
\* no engine; one with step > 0 and spread > 0 gives an engine with no level
\* armed, no cycle counted, no previous tick and a sample count of 0.
C10_Construction ==
    call.op = "construct" =>
        /\ (call.a <= 0 \/ call.b <= 0)
           => /\ engine = "error"
              /\ ~ENABLED Finalize
              /\ \A price \in Prices : ~ENABLED Feed(price, 0)
        /\ (call.a > 0 /\ call.b > 0)
           => /\ engine = "ok"
              /\ step = call.a /\ spread = call.b
              /\ \A L \in DOMAIN armed : ~armed[L]
              /\ armed_ns = EmptyDict
              /\ cycles = EmptyDict
              /\ first_close_ns = EmptyDict /\ last_close_ns = EmptyDict
              /\ durations_s = EmptyDict
              /\ prev_price = None /\ prev_ns = None
              /\ samples = 0

\* C10 witness: a step of 0 was refused.
C10_Witness ==
    /\ call.op = "construct" /\ call.a = 0 /\ call.b > 0
    /\ engine = "error"

\* C12: for every price, of either sign, and every step > 0, the value of
\* floor_to_step(price, step) is a multiple of step, is <= price, and is
\* less than one step below price.
C12_FloorToStep ==
    call.op = "floor_to_step" =>
        LET f == out[1]
        IN /\ \E k \in (0 - Abs(f))..Abs(f) : f = k * call.b
           /\ f <= call.a
           /\ call.a - f < call.b

\* the levels a down tick from p0 to p1 scans
Scanned(p0, p1) == Levels(ScanLevels(p0, p1))

C14_UpTickCloses ==
    [][(GapMode /\ prev_price # None /\ call'.op = "feed" /\ call'.a > prev_price[1]) =>
        \A L \in Keys2 \cup GridLevels :
            LET hit == Armed(armed, L)
                         /\ prev_price[1] < L + spread /\ L + spread <= call'.a
            IN /\ Count(cycles', L) = Count(cycles, L) + (IF hit THEN 1 ELSE 0)
               /\ Armed(armed', L) <=> (Armed(armed, L) /\ ~hit)
               /\ (Armed(armed, L) /\ ~hit)
                  => (L \in DOMAIN armed_ns' /\ armed_ns'[L] = armed_ns[L])
               /\ hit => (L \notin DOMAIN armed_ns' /\ last_close_ns'[L] = call'.b)]_vars

\* C14 witness: the levels 4, 2 and 0 were armed by one fall; the rise from
\* 0 to 4 closed 0 and 2 in one tick and left 4 armed with its timestamp.
C14_Witness ==
    /\ GapMode /\ step = 2 /\ spread = 1
    /\ ticks = <<5, 0, 4>>
    /\ Count(cycles, 0) = 1 /\ Count(cycles, 2) = 1 /\ Count(cycles, 4) = 0
    /\ ~Armed(armed, 0) /\ ~Armed(armed, 2)
    /\ Armed(armed, 4) /\ armed_ns[4] = 1

\* C15: in both modes a tick that leaves an armed level armed leaves its arm
\* timestamp and its count as they were, also when the tick crosses or
\* prints the level again; the duration a close appends is the time since
\* that timestamp.
C15_ReArmNoOp ==
    [][(engine = "ok" /\ call'.op = "feed") =>
        \A L \in Keys2 :
            /\ (Armed(armed, L) /\ Armed(armed', L))
               => /\ armed_ns'[L] = armed_ns[L]
                  /\ Count(cycles', L) = Count(cycles, L)
            /\ Count(cycles', L) # Count(cycles, L)
               => /\ Len(durations_s'[L]) = Len(Get(durations_s, L, <<>>)) + 1
                  /\ durations_s'[L][Len(durations_s'[L])] = call'.b - armed_ns[L]]_vars

\* C15 witness: gap-aware, the level 2 was armed at tick 1, crossed down
\* again at tick 3 and closed at tick 4: the duration is 3, from the first
\* arm.
C15_Witness ==
    /\ GapMode /\ step = 2 /\ spread = 3
    /\ ticks = <<3, 1, 3, 1, 5>>
    /\ Count(cycles, 2) = 1
    /\ durations_s[2] = <<3>>

\* C16: _close called on an in-band level that is not armed changes nothing
\* of that level: its count, its first and last close times, its durations
\* and its armed flag stay as they were.
C16_CloseNotArmed ==
    [][(call'.op = "_close" /\ Tracked(call'.a) /\ ~Armed(armed, call'.a)) =>
        /\ Count(cycles', call'.a) = Count(cycles, call'.a)
        /\ first_close_ns' = first_close_ns
        /\ last_close_ns' = last_close_ns
        /\ durations_s' = durations_s
        /\ ~Armed(armed', call'.a)]_vars

\* C17: in gap-aware mode a tick at the previous price changes no armed
\* flag, arm timestamp, count, close time or duration; the previous price
\* and timestamp become those of the tick and the sample count grows by 1.
C17_EqualPriceTick ==
    [][(GapMode /\ prev_price # None /\ call'.op = "feed" /\ call'.a = prev_price[1]) =>
        /\ UNCHANGED storevars
        /\ prev_price' = Some(call'.a)
        /\ prev_ns' = Some(call'.b)
        /\ samples' = samples + 1]_vars

\* C17 witness: the level 2 was armed at tick 1; the tick 2 repeated the
\* price 2 and left it armed with its timestamp.
C17_Witness ==
    /\ GapMode /\ step = 2
    /\ ticks = <<4, 2, 2>>
    /\ call = Call("feed", 2, 2)
    /\ Armed(armed, 2) /\ armed_ns[2] = 1
    /\ prev_ns = Some(2) /\ samples = 3

\* C18: in exact-only mode a tick at price P closes P - spread when that
\* level is on the grid and armed (count + 1, flag cleared) and, whether or
\* not it closed, leaves P armed when P is on the grid and in the band; this
\* holds from the first tick on, and every tick sets the previous price and
\* timestamp and adds 1 to the sample count.
C18_ExactBothChecks ==
    [][(ExactMode /\ call'.op = "feed") =>
        LET P == call'.a
        IN /\ ((P - spread) % step = 0 /\ Armed(armed, P - spread))
              => /\ Count(cycles', P - spread) = Count(cycles, P - spread) + 1
                 /\ ~Armed(armed', P - spread)
           /\ (P % step = 0 /\ Tracked(P)) => Armed(armed', P)
           /\ (P % step = 0 /\ ~Tracked(P)) => ~Armed(armed', P)
           /\ prev_price' = Some(P)
           /\ prev_ns' = Some(call'.b)
           /\ samples' = samples + 1]_vars

\* C18 as first stated: when P and P - spread are on the grid and P - spread
\* is armed, the tick closes P - spread and leaves P armed.
C18_CloseAndArm ==
    [][(ExactMode /\ call'.op = "feed") =>
        LET P == call'.a
        IN /\ (P % step = 0 /\ (P - spread) % step = 0 /\ Armed(armed, P - spread))
              => /\ Count(cycles', P - spread) = Count(cycles, P - spread) + 1
                 /\ Armed(armed', P)
           /\ prev_price' = Some(P)
           /\ prev_ns' = Some(call'.b)
           /\ samples' = samples + 1]_vars

\* C18 witness: exact-only, the first tick armed 2, the second, at 4, closed
\* 2 and armed 4.
C18_Witness ==
    /\ ExactMode /\ step = 2 /\ spread = 2
    /\ ticks = <<2, 4>>
    /\ Count(cycles, 2) = 1 /\ ~Armed(armed, 2)
    /\ Armed(armed, 4) /\ armed_ns[4] = 1

\* C19: in gap-aware mode the first tick of an engine arms and closes
\* nothing, whatever its price: the dictionaries are empty before and after
\* it; it sets the previous price and timestamp.
C19_FirstTick ==
    [][(GapMode /\ prev_price = None /\ call'.op = "feed") =>
        /\ Store = EmptyStore
        /\ UNCHANGED storevars
        /\ prev_price' = Some(call'.a)
        /\ prev_ns' = Some(call'.b)]_vars

\* C19 witness: the first tick printed the grid level 4 and nothing is armed.
C19_Witness ==
    /\ GapMode /\ step = 2 /\ level_min = None /\ level_max = None
    /\ ticks = <<4>>
    /\ call.op = "feed"
    /\ armed = EmptyDict /\ cycles = EmptyDict
    /\ prev_price = Some(4)

\* C20: in every state reached by feed calls each level has as many
\* recorded durations as completed cycles; a step never shortens or rewrites
\* a list of durations, and never changes a first close time once set.
C20_DurationsAndFirstClose ==
    /\ [](engine = "ok" =>
            \A L \in Keys \cup DOMAIN durations_s :
                Len(Get(durations_s, L, <<>>)) = Count(cycles, L))
    /\ [][engine = "ok" =>
            /\ \A L \in DOMAIN durations_s :
                  /\ L \in DOMAIN durations_s'
                  /\ Len(durations_s'[L]) >= Len(durations_s[L])
                  /\ SubSeq(durations_s'[L], 1, Len(durations_s[L])) = durations_s[L]
            /\ \A L \in DOMAIN first_close_ns :
                  /\ L \in DOMAIN first_close_ns'
                  /\ first_close_ns'[L] = first_close_ns[L]]_vars

\* C20 witness: the level 2 closed at tick 2 and again at tick 4: two
\* cycles, two durations, first close still 2.
C20_Witness ==
    /\ GapMode /\ step = 2 /\ spread = 2
    /\ ticks = <<3, 1, 5, 1, 5>>
    /\ Count(cycles, 2) = 2
    /\ durations_s[2] = <<1, 1>>
    /\ first_close_ns[2] = 2 /\ last_close_ns[2] = 4

\* C21: in every state reached by feed calls, in both modes, a level has an
\* arm timestamp exactly when it is armed; a step that leaves the flag of a
\* level as it was leaves its timestamp as it was.
C21_StampIffArmed ==
    /\ [](engine = "ok" =>
            \A L \in DOMAIN armed \cup DOMAIN armed_ns :
                L \in DOMAIN armed_ns <=> Armed(armed, L))
    /\ [][engine = "ok" =>
            \A L \in Keys2 \cup DOMAIN armed_ns :
                (Armed(armed', L) <=> Armed(armed, L))
                => /\ L \in DOMAIN armed_ns' <=> L \in DOMAIN armed_ns
                   /\ L \in DOMAIN armed_ns => armed_ns'[L] = armed_ns[L]]_vars

\* C21 witness: the levels 4 and 2 were armed at tick 1 and 2 closed at
\* tick 2: only 4 has a timestamp.
C21_Witness ==
    /\ GapMode /\ step = 2 /\ spread = 1
    /\ ticks = <<5, 1, 3>>
    /\ Armed(armed, 4) /\ 2 \in DOMAIN armed /\ ~armed[2]
    /\ DOMAIN armed_ns = {4}

\* C22: in gap-aware mode, in every state after a feed call, every armed
\* level L has the previous price below L + spread: no level is left armed
\* with the price at or above its target.
C22_ArmedBelowTarget ==
    (GapMode /\ prev_price # None) =>
        \A L \in DOMAIN armed :
            armed[L] => prev_price[1] < L + spread

\* C22 witness: the price rose from 1 to 5 over the target 5 of the armed
\* level 2 and short of the target 7 of the armed level 4, then fell to 3:
\* 2 is closed, 4 stays armed below its target.
C22_Witness ==
    /\ GapMode /\ step = 2 /\ spread = 3
    /\ ticks = <<5, 1, 5, 3>>
    /\ Count(cycles, 2) = 1 /\ ~Armed(armed, 2)
    /\ Armed(armed, 4) /\ Count(cycles, 4) = 0
    /\ prev_price = Some(3)

\* C23: when the ticks are fed in non-decreasing timestamp order, in every
\* state the arm timestamp of every armed level is <= the timestamp of the
\* last tick, every recorded duration is >= 0, and every level with a count
\* has first_close_ns <= last_close_ns.
C23_TimestampOrder ==
    engine = "ok" =>
        /\ \A L \in DOMAIN armed_ns :
              prev_ns # None /\ armed_ns[L] <= prev_ns[1]
        /\ \A L \in DOMAIN durations_s :
              \A i \in 1..Len(durations_s[L]) : durations_s[L][i] >= 0
        /\ \A L \in DOMAIN cycles :
              /\ L \in DOMAIN first_close_ns /\ L \in DOMAIN last_close_ns
              /\ first_close_ns[L] <= last_close_ns[L]
              /\ prev_ns # None /\ last_close_ns[L] <= prev_ns[1]

\* C23 witness: exact-only, two ticks with the same timestamp 1 armed and
\* closed the level 2 (duration 0); it closed again at timestamp 2, and 4
\* is armed since timestamp 1.
C23_Witness ==
    /\ ExactMode
    /\ ticks = <<2, 4, 2, 4>>
    /\ durations_s[2] = <<0, 1>>
    /\ first_close_ns[2] = 1 /\ last_close_ns[2] = 2
    /\ Armed(armed, 4) /\ armed_ns[4] = 1
    /\ prev_ns = Some(2)

====
